---- MODULE Spec2Model ----
(***************************************************************************)
(* The "Tempering" code cell of notes/AdvancedSampling.ipynb:              *)
(*                                                                         *)
(*     xx = np.arange(-10., 10., 0.1)                                      *)
(*     plt.plot(xx, scipy.stats.norm.pdf(xx));                             *)
(*     yy = np.sqrt(scipy.stats.norm.pdf(xx))                              *)
(*     yy = yy / (np.sum(yy)*0.1)                                          *)
(*     plt.plot(xx, yy);                                                   *)
(*                                                                         *)
(* Every number of the cell is an IEEE-754 binary64 value (numpy's default *)
(* dtype).  The model keeps that width: a double is a sign, an exponent    *)
(* and a 53-bit significand held as a little-endian sequence of 15-bit     *)
(* limbs, and +, -, *, / and sqrt round to nearest, ties to even, exactly  *)
(* as the hardware does.  exp is the correctly rounded exponential (the    *)
(* library's is within one unit in the last place of it).  Values outside  *)
(* the normal range (subnormal, infinite, NaN) are one absorbing value,    *)
(* OOR, which no comparison accepts.                                       *)
(***************************************************************************)
EXTENDS Integers, Sequences, FiniteSets

-----------------------------------------------------------------------------
(* Natural numbers of any size: little-endian sequences of limbs in        *)
(* 0..Base-1 with no leading zero limb; <<>> is zero.                      *)

LimbBits == 15
Base == 32768

Limb(a, i) == IF i <= Len(a) THEN a[i] ELSE 0

RECURSIVE BNorm(_)
BNorm(a) ==
  IF a = <<>> THEN a
  ELSE IF a[Len(a)] = 0 THEN BNorm(SubSeq(a, 1, Len(a) - 1)) ELSE a

RECURSIVE BCmpAt(_, _, _)
BCmpAt(a, b, i) ==
  IF i = 0 THEN 0
  ELSE IF a[i] > b[i] THEN 1
  ELSE IF a[i] < b[i] THEN -1
  ELSE BCmpAt(a, b, i - 1)

\* -1, 0 or 1 as a < b, a = b, a > b
BCmp(a, b) ==
  IF Len(a) > Len(b) THEN 1
  ELSE IF Len(a) < Len(b) THEN -1
  ELSE BCmpAt(a, b, Len(a))

RECURSIVE BAddFrom(_, _, _, _)
BAddFrom(a, b, i, c) ==
  IF i > Len(a) /\ i > Len(b) THEN (IF c = 0 THEN <<>> ELSE <<c>>)
  ELSE LET s == Limb(a, i) + Limb(b, i) + c
       IN  <<s % Base>> \o BAddFrom(a, b, i + 1, s \div Base)

BAdd(a, b) == BAddFrom(a, b, 1, 0)

RECURSIVE BSubFrom(_, _, _, _)
BSubFrom(a, b, i, br) ==
  IF i > Len(a) THEN <<>>
  ELSE LET t == a[i] - Limb(b, i) - br
       IN  IF t < 0 THEN <<t + Base>> \o BSubFrom(a, b, i + 1, 1)
           ELSE <<t>> \o BSubFrom(a, b, i + 1, 0)

\* a - b, for a >= b
BSub(a, b) == BNorm(BSubFrom(a, b, 1, 0))

RECURSIVE BMulSmallFrom(_, _, _, _)
BMulSmallFrom(a, k, i, c) ==
  IF i > Len(a) THEN (IF c = 0 THEN <<>> ELSE <<c>>)
  ELSE LET p == a[i] * k + c
       IN  <<p % Base>> \o BMulSmallFrom(a, k, i + 1, p \div Base)

\* a * k, for 0 <= k <= Base
BMulSmall(a, k) == IF k = 0 THEN <<>> ELSE BMulSmallFrom(a, k, 1, 0)

BShlLimbs(a, n) == IF a = <<>> THEN a ELSE [j \in 1..n |-> 0] \o a

BShrLimbs(a, n) == IF n >= Len(a) THEN <<>> ELSE SubSeq(a, n + 1, Len(a))

RECURSIVE BMulFrom(_, _, _)
BMulFrom(a, b, j) ==
  IF j > Len(b) THEN <<>>
  ELSE BAdd(BShlLimbs(BMulSmall(a, b[j]), j - 1), BMulFrom(a, b, j + 1))

BMul(a, b) == BMulFrom(a, b, 1)

RECURSIVE BDivSmallAt(_, _, _, _)
BDivSmallAt(a, k, i, r) ==
  IF i = 0 THEN <<>>
  ELSE LET cur == r * Base + a[i]
       IN  BDivSmallAt(a, k, i - 1, cur % k) \o <<cur \div k>>

\* floor(a / k), for 1 <= k <= Base
BDivSmall(a, k) == IF k = 1 THEN a ELSE BNorm(BDivSmallAt(a, k, Len(a), 0))

\* a * 2^n and floor(a / 2^n)
BShl(a, n) == BMulSmall(BShlLimbs(a, n \div LimbBits), 2^(n % LimbBits))
BShr(a, n) == BDivSmall(BShrLimbs(a, n \div LimbBits), 2^(n % LimbBits))

RECURSIVE IntBitLen(_)
IntBitLen(n) == IF n = 0 THEN 0 ELSE 1 + IntBitLen(n \div 2)

BBitLen(a) ==
  IF a = <<>> THEN 0 ELSE LimbBits * (Len(a) - 1) + IntBitLen(a[Len(a)])

BOdd(a) == a # <<>> /\ a[1] % 2 = 1

\* a natural below 2^30 as limbs, and back
BOfInt(n) == BNorm(<<n % Base, n \div Base>>)
BToInt(a) == Limb(a, 1) + Base * Limb(a, 2)

-----------------------------------------------------------------------------
(* IEEE-754 binary64.  A finite nonzero double is (-1)^s * m * 2^e with    *)
(* 2^52 <= m < 2^53; zero has m = <<>>.                                    *)

Prec == 53
EMin == -1022
EMax == 1023

OOR == [k |-> "oor", s |-> 0, e |-> 0, m |-> <<>>]
FZero == [k |-> "fin", s |-> 0, e |-> 0, m |-> <<>>]
MkF(s, e, m) == [k |-> "fin", s |-> s, e |-> e, m |-> m]

IsFin(x) == x.k = "fin"
IsZero(x) == x.k = "fin" /\ x.m = <<>>

\* A finite double from its parts, or OOR when it leaves the normal range
Pack(s, e, m) ==
  IF e + Prec - 1 < EMin \/ e + Prec - 1 > EMax THEN OOR ELSE MkF(s, e, m)

\* The rounded quotient q1 of Prec or Prec + 1 bits after k bits were dropped
RoundCarry(s, q1, E, k) ==
  IF BBitLen(q1) > Prec THEN Pack(s, E + k + 1, BShr(q1, 1))
  ELSE Pack(s, E + k, q1)

\* q rounded up when the dropped part r is above half (c = 1), or is a half
\* (c = 0) and q is odd
RoundTie(s, q, E, k, c) ==
  RoundCarry(s, IF c = 1 \/ (c = 0 /\ BOdd(q)) THEN BAdd(q, <<1>>) ELSE q, E, k)

RoundDrop(s, M, E, k, q) ==
  RoundTie(s, q, E, k, BCmp(BSub(M, BShl(q, k)), BShl(<<1>>, k - 1)))

RoundBits(s, M, E, k) ==
  IF k <= 0 THEN Pack(s, E + k, BShl(M, -k))
  ELSE RoundDrop(s, M, E, k, BShr(M, k))

\* The double nearest to (-1)^s * M * 2^E, ties to the even significand.
Round(s, M, E) ==
  IF M = <<>> THEN FZero ELSE RoundBits(s, M, E, BBitLen(M) - Prec)

FNeg(x) == IF x.k = "oor" \/ x.m = <<>> THEN x ELSE [x EXCEPT !.s = 1 - x.s]

FAbs(x) == [x EXCEPT !.s = 0]

\* x + y.  Operands more than FarApart binary places apart: the smaller one
\* only says on which side of the larger the sum lies.
FarApart == 64

\* The sum of shi * Mhi * 2^E and slo * Mlo * 2^E; c compares Mhi with Mlo.
\* Equal magnitudes of opposite sign give +0.
AddSigned(shi, slo, Mhi, Mlo, E, c) ==
  Round(IF shi = slo \/ c = 1 THEN shi ELSE slo,
        IF shi = slo THEN BAdd(Mhi, Mlo)
        ELSE IF c = 1 THEN BSub(Mhi, Mlo) ELSE BSub(Mlo, Mhi),
        E)

AddAligned(shi, slo, Mhi, Mlo, E) ==
  AddSigned(shi, slo, Mhi, Mlo, E, BCmp(Mhi, Mlo))

\* hi.e >= lo.e, both nonzero; far: more than FarApart places apart
AddShifted(hi, lo, far) ==
  AddAligned(hi.s, lo.s,
             BShl(hi.m, IF far THEN 3 ELSE hi.e - lo.e),
             IF far THEN <<1>> ELSE lo.m,
             IF far THEN hi.e - 3 ELSE lo.e)

AddOrdered(hi, lo) == AddShifted(hi, lo, hi.e - lo.e > FarApart)

FAdd(x, y) ==
  IF x.k = "oor" \/ y.k = "oor" THEN OOR
  ELSE IF x.m = <<>> THEN y
  ELSE IF y.m = <<>> THEN x
  ELSE AddOrdered(IF x.e >= y.e THEN x ELSE y, IF x.e >= y.e THEN y ELSE x)

FSub(x, y) == FAdd(x, FNeg(y))

FMul(x, y) ==
  IF x.k = "oor" \/ y.k = "oor" THEN OOR
  ELSE IF x.m = <<>> \/ y.m = <<>> THEN FZero
  ELSE Round((x.s + y.s) % 2, BMul(x.m, y.m), x.e + y.e)

\* Naturals below 2^60 as <<high, low>> halves of 30 bits, for the bit loops
\* of division and square root.
Half == 1073741824
WOf(m) == <<Limb(m, 3) + Base * Limb(m, 4), Limb(m, 1) + Base * Limb(m, 2)>>
WLimbs(w) == <<w[2] % Base, w[2] \div Base, w[1] % Base, w[1] \div Base>>
WToB(w) == BNorm(WLimbs(w))
WDbl(w) ==
  IF w[2] >= Half \div 2 THEN <<2 * w[1] + 1, 2 * w[2] - Half>>
  ELSE <<2 * w[1], 2 * w[2]>>
WInc(w, n) == <<w[1], w[2] + n>>
WGe(a, b) == a[1] > b[1] \/ (a[1] = b[1] /\ a[2] >= b[2])
WSub(a, b) ==
  IF a[2] >= b[2] THEN <<a[1] - b[1], a[2] - b[2]>>
  ELSE <<a[1] - b[1] - 1, a[2] - b[2] + Half>>

\* n more quotient bits of rem / d (rem < d): <<the bits, the remainder>>
RECURSIVE DivBits(_, _, _, _)
DivBits(rem, d, n, q) ==
  IF n = 0 THEN <<q, rem>>
  ELSE LET r2 == WDbl(rem)
       IN  IF WGe(r2, d) THEN DivBits(WSub(r2, d), d, n - 1, 2 * q + 1)
           ELSE DivBits(r2, d, n - 1, 2 * q)

\* x / y: 60 fraction bits of x.m / y.m and a sticky bit, then rounded.
\* A division by zero gives inf or nan: OOR.
FDiv(x, y) ==
  IF x.k = "oor" \/ y.k = "oor" \/ y.m = <<>> THEN OOR
  ELSE IF x.m = <<>> THEN FZero
  ELSE LET n == WOf(x.m)
           d == WOf(y.m)
           ge == WGe(n, d)
           d1 == DivBits(IF ge THEN WSub(n, d) ELSE n, d, 30, 0)
           d2 == DivBits(d1[2], d, 30, 0)
           Q == BNorm(WLimbs(<<d1[1], d2[1]>>) \o <<IF ge THEN 1 ELSE 0>>)
           M == BAdd(BAdd(Q, Q), IF d2[2] = <<0, 0>> THEN <<>> ELSE <<1>>)
       IN  Round((x.s + y.s) % 2, M, x.e - y.e - 61)

\* The i-th pair of bits, from the top, of a 54-bit w followed by zeros
BitPair(w, i) ==
  IF i <= 12 THEN (w[1] \div 4^(12 - i)) % 4
  ELSE IF i <= 27 THEN (w[2] \div 4^(27 - i)) % 4
  ELSE 0

\* The square root bit by bit: from pair i on, given the root and the
\* remainder of the pairs before it: <<the root, the remainder>>
RECURSIVE SqrtBits(_, _, _, _)
SqrtBits(w, i, root, rem) ==
  IF i > 56 THEN <<root, rem>>
  ELSE LET r4 == WInc(WDbl(WDbl(rem)), BitPair(w, i))
           t == WInc(WDbl(WDbl(root)), 1)
       IN  IF WGe(r4, t) THEN SqrtBits(w, i + 1, WInc(WDbl(root), 1), WSub(r4, t))
           ELSE SqrtBits(w, i + 1, WDbl(root), r4)

\* sqrt(x): 56 bits of the root and a sticky bit, then rounded.  The square
\* root of a negative number is nan: OOR.
FSqrt(x) ==
  IF x.k = "oor" THEN OOR
  ELSE IF x.m = <<>> THEN FZero
  ELSE IF x.s = 1 THEN OOR
  ELSE LET odd == x.e % 2 = 1
           w == IF odd THEN WDbl(WOf(x.m)) ELSE WOf(x.m)
           e0 == IF odd THEN x.e - 1 ELSE x.e
           rs == SqrtBits(w, 1, <<0, 0>>, <<0, 0>>)
           R == WToB(rs[1])
           M == BAdd(BAdd(R, R), IF rs[2] = <<0, 0>> THEN <<>> ELSE <<1>>)
       IN  Round(0, M, (e0 - 58) \div 2 - 1)

\* -1, 0 or 1 as x < y, x = y, x > y (finite x and y)
Sgn(x) == IF x.m = <<>> THEN 0 ELSE 1 - 2 * x.s
MagCmp(x, y) ==
  IF x.e > y.e THEN 1 ELSE IF x.e < y.e THEN -1 ELSE BCmp(x.m, y.m)
FCmp(x, y) ==
  IF Sgn(x) # Sgn(y) THEN (IF Sgn(x) > Sgn(y) THEN 1 ELSE -1)
  ELSE IF Sgn(x) = 0 THEN 0
  ELSE Sgn(x) * MagCmp(x, y)

\* Comparisons; none holds of a value outside the normal range.
FLt(x, y) == x.k = "fin" /\ y.k = "fin" /\ FCmp(x, y) < 0
FLe(x, y) == x.k = "fin" /\ y.k = "fin" /\ FCmp(x, y) <= 0
FEq(x, y) == x.k = "fin" /\ y.k = "fin" /\ FCmp(x, y) = 0

\* The double of an integer 0 <= n < 2^30 (exact)
IntToF(n) == Round(0, BOfInt(n), 0)

\* A decimal literal n/d (n, d < 2^30): the double nearest to it
Lit(n, d) == FDiv(IntToF(n), IntToF(d))

\* ceil(x) as an integer, for x < 2^30; 0 for x <= 0
FCeilInt(x) ==
  IF x.m = <<>> \/ x.s = 1 THEN 0
  ELSE IF x.e >= 0 THEN BToInt(BShl(x.m, x.e))
  ELSE LET q == BShr(x.m, -x.e)
       IN  BToInt(q) + (IF BShl(q, -x.e) = x.m THEN 0 ELSE 1)

\* exp(-t) for a double t >= 0, correctly rounded.  In fixed point with
\* FracLimbs limbs after the point: with n = floor(t / ln 2) and
\* r = (n+1) ln 2 - t in (0, ln 2], exp(-t) = exp(r) * 2^-(n+1), and exp(r)
\* is its Taylor series, summed until the terms vanish.  A term of L limbs
\* is multiplied by the top L limbs of r only: what the rest of r would add
\* is below one unit of the fixed point, 37 binary places below the last
\* place of the result.
FracLimbs == 6
FracBits == FracLimbs * LimbBits
\* floor(ln 2 * 2^90)
Ln2Fix == <<3790, 24143, 30618, 31289, 1533, 22713>>

RECURSIVE ExpSeries(_, _, _, _)
ExpSeries(r, term, acc, k) ==
  IF term = <<>> THEN acc
  ELSE LET j == IF Len(term) >= FracLimbs THEN 0 ELSE FracLimbs - Len(term)
           t == BDivSmall(BShrLimbs(BMul(BShrLimbs(r, j), term), FracLimbs - j), k)
       IN  ExpSeries(r, t, BAdd(acc, t), k + 1)

RECURSIVE Ln2Count(_, _)
Ln2Count(T, n) ==
  IF BCmp(BMulSmall(Ln2Fix, n + 1), T) <= 0 THEN Ln2Count(T, n + 1) ELSE n

FExpNeg(t) ==
  IF t.k = "oor" THEN OOR
  ELSE IF t.m = <<>> THEN Round(0, <<1>>, 0)
  ELSE IF t.e + Prec > 10 THEN OOR
  ELSE LET T == IF FracBits + t.e >= 0 THEN BShl(t.m, FracBits + t.e)
                ELSE BShr(t.m, -(FracBits + t.e))
           n == Ln2Count(T, BToInt(BShrLimbs(T, FracLimbs - 1)) \div (Ln2Fix[FracLimbs] + 1))
           r == BSub(BMulSmall(Ln2Fix, n + 1), T)
           one == BShlLimbs(<<1>>, FracLimbs)
       IN  Round(0, ExpSeries(r, one, one, 1), -FracBits - (n + 1))

-----------------------------------------------------------------------------
(* The library calls of the cell.                                          *)

\* Faults the properties below must tell from the cell: a stop of 10.1,
\* a step of 0.2, and a sum multiplied by 0.01
StopInclusive == Lit(101, 10)
StepCoarse == Lit(1, 5)
DxCoarse == Lit(1, 100)

\* The literals of the cell: np.arange(-10., 10., 0.1) and np.sum(yy)*0.1
\* Fault: a grid that starts one step late, at -9.9
StartLate == FNeg(Lit(99, 10))

Start == FNeg(IntToF(10))
Stop == IntToF(10)
Step == Lit(1, 10)
Dx == Lit(1, 10)

\* 2.0 in scipy's exp(-x**2/2.0), and 1.0
Two == IntToF(2)
One == IntToF(1)
\* np.pi, the double 0x1.921fb54442d18p+1
NpPi == MkF(0, -51, <<11544, 10376, 2029, 201>>)

\* np.arange(start, stop, step): ceil((stop - start) / step) elements
ArangeLen == FCeilInt(FDiv(FSub(Stop, Start), Step))

\* Element i (from 0) of np.arange, given the elements before it: the first
\* two are start and start + step, and the rest are filled from them as
\* start + i * delta, with delta the difference of the first two.
ArangeAt(buf, i) ==
  IF i = 0 THEN Start
  ELSE FAdd(IF i = 1 THEN Start ELSE buf[1],
            IF i = 1 THEN Step ELSE FMul(IntToF(i), FSub(buf[2], buf[1])))

\* np.exp(y) for y <= 0 (the only arguments norm.pdf gives it)
np_exp(y) == IF y.k = "fin" /\ (y.m = <<>> \/ y.s = 1) THEN FExpNeg(FAbs(y)) ELSE OOR

\* Faults: the constant sqrt(pi), and the density centred at 1
NormPdfCNoTwo == FSqrt(NpPi)
pdf_loc_one(x) ==
  FDiv(np_exp(FDiv(FNeg(FMul(FSub(x, One), FSub(x, One))), Two)),
       FSqrt(FMul(Two, NpPi)))

\* scipy.stats.norm.pdf(x), loc 0 and scale 1: exp(-x**2/2.0) / sqrt(2*pi)
NormPdfC == FSqrt(FMul(Two, NpPi))
norm_pdf(x) == FDiv(np_exp(FDiv(FNeg(FMul(x, x)), Two)), NormPdfC)

\* Fault: the negative root
np_sqrt_neg(x) == FNeg(FSqrt(x))

np_sqrt(x) == FSqrt(x)

\* Fault: a sum that adds nothing
sum_nothing(a) == FZero

\* np.sum(a): numpy adds pairwise.  Up to 128 elements go in eight lanes that
\* are added as a tree, the elements past the last full eight one by one; a
\* longer array is halved (at a multiple of eight) and the halves' sums added.

\* The eight running sums r of the unrolled loop, over the blocks of eight
\* elements of a from position i + 1 up to position last
RECURSIVE LaneSum(_, _, _, _)
LaneSum(a, i, last, r) ==
  IF i >= last THEN r
  ELSE LaneSum(a, i + 8, last, [j \in 1..8 |-> FAdd(r[j], a[i + j])])

\* (r[1] + r[2]) + (r[3] + r[4]) and so on, for 2^k running sums
RECURSIVE LaneFold(_)
LaneFold(r) ==
  IF Len(r) = 1 THEN r[1]
  ELSE LaneFold([j \in 1..(Len(r) \div 2) |-> FAdd(r[2 * j - 1], r[2 * j])])

RECURSIVE TailSum(_, _, _, _)
TailSum(a, i, last, acc) ==
  IF i > last THEN acc ELSE TailSum(a, i + 1, last, FAdd(acc, a[i]))

\* the sum of the n elements of a after the first lo
RECURSIVE PairwiseSum(_, _, _)
PairwiseSum(a, lo, n) ==
  IF n < 8 THEN TailSum(a, lo + 1, lo + n, FZero)
  ELSE IF n <= 128 THEN
    TailSum(a, lo + n - (n % 8) + 1, lo + n,
            LaneFold(LaneSum(a, lo + 8, lo + n - (n % 8),
                             [j \in 1..8 |-> a[lo + j]])))
  ELSE LET n2 == (n \div 2) - ((n \div 2) % 8)
       IN  FAdd(PairwiseSum(a, lo, n2), PairwiseSum(a, lo + n2, n - n2))

np_sum(a) == PairwiseSum(a, 0, Len(a))

-----------------------------------------------------------------------------
(* The notebook session.  The kernel keeps the names xx and yy between     *)
(* runs of the cell; <<>> is a name not bound yet.  An array operation     *)
(* fills its result one element at a time (out), reading its argument      *)
(* (arg, or a bound name), and the statement binds the finished array.     *)

\* times the cell may be run in one session
MaxRuns == 2

VARIABLES
  pc,         \* the statement of the cell being executed, "idle" between runs
  xx,         \* the name xx
  yy,         \* the name yy
  arg,        \* a temporary array: the value of scipy.stats.norm.pdf(xx)
  out,        \* the array being filled by the operation in progress
  divisor,    \* the value of np.sum(yy)*0.1
  lines,      \* the figure's line series, each [x |-> array, y |-> array]
  displayed,  \* the figures shown so far, one per finished run
  run         \* runs of the cell started so far

vars == <<pc, xx, yy, arg, out, divisor, lines, displayed, run>>

Init ==
  /\ pc = "idle"
  /\ xx = <<>>
  /\ yy = <<>>
  /\ arg = <<>>
  /\ out = <<>>
  /\ divisor = FZero
  /\ lines = <<>>
  /\ displayed = <<>>
  /\ run = 0

\* Running the cell: it starts at its first statement with a new figure.
RunCell ==
  /\ pc = "idle"
  /\ run < MaxRuns
  /\ pc' = "arange"
  /\ run' = run + 1
  /\ out' = <<>>
  /\ lines' = <<>>
  /\ UNCHANGED <<xx, yy, arg, divisor, displayed>>

\* Fault: a grid carried over from the run before, moved on by one step
ArangeStepCarry ==
  /\ pc = "arange"
  /\ LET next == IF xx = <<>> THEN ArangeAt(out, Len(out))
                 ELSE FAdd(xx[Len(out) + 1], Step)
         filled == IF Len(out) < ArangeLen THEN Append(out, next) ELSE out
     IN  IF Len(filled) >= ArangeLen
         THEN xx' = filled /\ out' = <<>> /\ pc' = "pdfA"
         ELSE out' = filled /\ UNCHANGED <<xx, pc>>
  /\ UNCHANGED <<yy, arg, divisor, lines, displayed, run>>

\* xx = np.arange(-10., 10., 0.1)
ArangeStep ==
  /\ pc = "arange"
  /\ LET filled == IF Len(out) < ArangeLen
                   THEN Append(out, ArangeAt(out, Len(out))) ELSE out
     IN  IF Len(filled) >= ArangeLen
         THEN xx' = filled /\ out' = <<>> /\ pc' = "pdfA"
         ELSE out' = filled /\ UNCHANGED <<xx, pc>>
  /\ UNCHANGED <<yy, arg, divisor, lines, displayed, run>>

\* Fault: the density evaluated from the last grid point to the first
PdfStepReversed ==
  /\ pc \in {"pdfA", "pdfB"}
  /\ LET filled == IF Len(out) < Len(xx)
                   THEN Append(out, norm_pdf(xx[Len(xx) - Len(out)])) ELSE out
     IN  IF Len(filled) >= Len(xx)
         THEN /\ arg' = filled
              /\ out' = <<>>
              /\ pc' = IF pc = "pdfA" THEN "plotA" ELSE "sqrt"
         ELSE out' = filled /\ UNCHANGED <<arg, pc>>
  /\ UNCHANGED <<xx, yy, divisor, lines, displayed, run>>

\* scipy.stats.norm.pdf(xx), in the second and in the third statement
PdfStep ==
  /\ pc \in {"pdfA", "pdfB"}
  /\ LET filled == IF Len(out) < Len(xx)
                   THEN Append(out, norm_pdf(xx[Len(out) + 1])) ELSE out
     IN  IF Len(filled) >= Len(xx)
         THEN /\ arg' = filled
              /\ out' = <<>>
              /\ pc' = IF pc = "pdfA" THEN "plotA" ELSE "sqrt"
         ELSE out' = filled /\ UNCHANGED <<arg, pc>>
  /\ UNCHANGED <<xx, yy, divisor, lines, displayed, run>>

\* plt.plot(x, y) adds one line series to the figure; x and y of different
\* lengths raise a ValueError, which ends the run.
Plot(x, y, next) ==
  IF Len(x) = Len(y)
  THEN lines' = Append(lines, [x |-> x, y |-> y]) /\ pc' = next
  ELSE pc' = "error" /\ UNCHANGED lines

\* plt.plot(xx, scipy.stats.norm.pdf(xx));
PlotA ==
  /\ pc = "plotA"
  /\ Plot(xx, arg, "pdfB")
  /\ arg' = <<>>
  /\ UNCHANGED <<xx, yy, out, divisor, displayed, run>>

\* Fault: the square roots plotted as they are, the normalization skipped
SqrtStepThenPlot ==
  /\ pc = "sqrt"
  /\ LET filled == IF Len(out) < Len(arg)
                   THEN Append(out, np_sqrt(arg[Len(out) + 1])) ELSE out
     IN  IF Len(filled) >= Len(arg)
         THEN yy' = filled /\ out' = <<>> /\ arg' = <<>> /\ pc' = "plotB"
         ELSE out' = filled /\ UNCHANGED <<yy, arg, pc>>
  /\ UNCHANGED <<xx, divisor, lines, displayed, run>>

\* yy = np.sqrt(scipy.stats.norm.pdf(xx))
SqrtStep ==
  /\ pc = "sqrt"
  /\ LET filled == IF Len(out) < Len(arg)
                   THEN Append(out, np_sqrt(arg[Len(out) + 1])) ELSE out
     IN  IF Len(filled) >= Len(arg)
         THEN yy' = filled /\ out' = <<>> /\ arg' = <<>> /\ pc' = "sum"
         ELSE out' = filled /\ UNCHANGED <<yy, arg, pc>>
  /\ UNCHANGED <<xx, divisor, lines, displayed, run>>

\* Fault: the divisor without the step size
SumStepNoDx ==
  /\ pc = "sum"
  /\ divisor' = np_sum(yy)
  /\ pc' = "div"
  /\ UNCHANGED <<xx, yy, arg, out, lines, displayed, run>>

\* np.sum(yy)*0.1, the divisor of the fourth statement
SumStep ==
  /\ pc = "sum"
  /\ divisor' = FMul(np_sum(yy), Dx)
  /\ pc' = "div"
  /\ UNCHANGED <<xx, yy, arg, out, lines, displayed, run>>

\* Fault: every element divided by a factor of its own
DivStepOwnFactor ==
  /\ pc = "div"
  /\ LET filled == IF Len(out) < Len(yy)
                   THEN Append(out, FDiv(yy[Len(out) + 1],
                                         FAdd(divisor, yy[Len(out) + 1])))
                   ELSE out
     IN  IF Len(filled) >= Len(yy)
         THEN yy' = filled /\ out' = <<>> /\ pc' = "plotB"
         ELSE out' = filled /\ UNCHANGED <<yy, pc>>
  /\ UNCHANGED <<xx, arg, divisor, lines, displayed, run>>

\* Fault: a normalization that binds its result to xx as well
DivStepOverGrid ==
  /\ pc = "div"
  /\ LET filled == IF Len(out) < Len(yy)
                   THEN Append(out, FDiv(yy[Len(out) + 1], divisor)) ELSE out
     IN  IF Len(filled) >= Len(yy)
         THEN yy' = filled /\ xx' = filled /\ out' = <<>> /\ pc' = "plotB"
         ELSE out' = filled /\ UNCHANGED <<xx, yy, pc>>
  /\ UNCHANGED <<arg, divisor, lines, displayed, run>>

\* Fault: a normalization that starts over when it is done
DivStepAgain ==
  /\ pc = "div"
  /\ LET filled == IF Len(out) < Len(yy)
                   THEN Append(out, FDiv(yy[Len(out) + 1], divisor)) ELSE out
     IN  IF Len(filled) >= Len(yy)
         THEN yy' = filled /\ out' = <<>> /\ pc' = "sum"
         ELSE out' = filled /\ UNCHANGED <<yy, pc>>
  /\ UNCHANGED <<xx, arg, divisor, lines, displayed, run>>

\* Fault: a normalization that multiplies by its factor
DivStepTimes ==
  /\ pc = "div"
  /\ LET filled == IF Len(out) < Len(yy)
                   THEN Append(out, FMul(yy[Len(out) + 1], divisor)) ELSE out
     IN  IF Len(filled) >= Len(yy)
         THEN yy' = filled /\ out' = <<>> /\ pc' = "plotB"
         ELSE out' = filled /\ UNCHANGED <<yy, pc>>
  /\ UNCHANGED <<xx, arg, divisor, lines, displayed, run>>

\* yy = yy / (np.sum(yy)*0.1)
DivStep ==
  /\ pc = "div"
  /\ LET filled == IF Len(out) < Len(yy)
                   THEN Append(out, FDiv(yy[Len(out) + 1], divisor)) ELSE out
     IN  IF Len(filled) >= Len(yy)
         THEN yy' = filled /\ out' = <<>> /\ pc' = "plotB"
         ELSE out' = filled /\ UNCHANGED <<yy, pc>>
  /\ UNCHANGED <<xx, arg, divisor, lines, displayed, run>>

\* plt.plot(xx, yy);
PlotB ==
  /\ pc = "plotB"
  /\ Plot(xx, yy, "show")
  /\ UNCHANGED <<xx, yy, arg, out, divisor, displayed, run>>

\* %matplotlib inline: when the cell ends its figure is shown.
Show ==
  /\ pc = "show"
  /\ displayed' = Append(displayed, lines)
  /\ pc' = "idle"
  /\ UNCHANGED <<xx, yy, arg, out, divisor, lines, run>>

Next ==
  \/ RunCell
  \/ ArangeStep
  \/ PdfStep
  \/ PlotA
  \/ SqrtStep
  \/ SumStep
  \/ DivStep
  \/ PlotB
  \/ Show

Spec == Init /\ [][Next]_vars

\* The kernel executes a cell that was run to its end; whether the cell is
\* run (again) is up to the user.
CellStep ==
  \/ ArangeStep
  \/ PdfStep
  \/ PlotA
  \/ SqrtStep
  \/ SumStep
  \/ DivStep
  \/ PlotB
  \/ Show

\* a run of the cell is in progress: a statement of the cell is to execute
Running ==
  pc \in {"arange", "pdfA", "plotA", "pdfB", "sqrt", "sum", "div", "plotB",
          "show"}

\* Weak fairness of the cell's steps, WF_vars(CellStep).  Each statement is
\* guarded by pc alone and its result is a total function of the state, so
\* ENABLED <<CellStep>>_vars is Running, and is written so.
LiveSpec == Init /\ [][Next]_vars /\ ([]<>~Running \/ []<><<CellStep>>_vars)

-----------------------------------------------------------------------------
(* The normalization alone, yy = yy / (np.sum(yy)*0.1), on other curves    *)
(* than the cell's.  An unnormalized curve B is an array of square roots   *)
(* of densities: zeros and doubles from 2^-511 up to 0.63.                 *)

\* longest curve tried, besides the cell's own
MaxLen == 3

\* the cell's grid (its elements are filled from the first two), and the
\* cell's curve B before its normalization
CellGrid ==
  LET first == <<ArangeAt(<<>>, 0), ArangeAt(<<>>, 1)>>
  IN  [i \in 1..ArangeLen |-> ArangeAt(first, i - 1)]

CellCurveB == [i \in 1..Len(CellGrid) |-> np_sqrt(norm_pdf(CellGrid[i]))]

\* the square root of the smallest normal double, 2^-511
SmallestRoot == FSqrt(MkF(0, EMin - Prec + 1, <<0, 0, 0, 128>>))

NormVals ==
  {FZero, SmallestRoot, np_sqrt(norm_pdf(Start)), Lit(1, 3), Lit(63, 100)}

NormInputs ==
  UNION {[1..n -> NormVals] : n \in 1..MaxLen} \cup {CellCurveB}

NormInit ==
  /\ pc = "sum"
  /\ yy \in NormInputs
  /\ xx = <<>>
  /\ arg = <<>>
  /\ out = <<>>
  /\ divisor = FZero
  /\ lines = <<>>
  /\ displayed = <<>>
  /\ run = 1

NormNext ==
  \/ SumStep
  \/ DivStep

NormSpec == NormInit /\ [][NormNext]_vars

\* The normalizing statement executed again on the yy it has bound; run
\* counts the executions
MaxApply == 2

Renormalize ==
  /\ pc = "plotB"
  /\ run < MaxApply
  /\ run' = run + 1
  /\ pc' = "sum"
  /\ UNCHANGED <<xx, yy, arg, out, divisor, lines, displayed>>

RenormNext ==
  \/ SumStep
  \/ DivStep
  \/ Renormalize

RenormSpec == NormInit /\ [][RenormNext]_vars

-----------------------------------------------------------------------------
(* Properties.  Indices below count from 1: index i of the cell's arrays   *)
(* is position i + 1 here.                                                 *)

Tol1e3 == Lit(1, 1000)
Tol1e4 == Lit(1, 10000)
Tol1e9 == Lit(1, 1000000000)
Tol1e12 == FMul(Lit(1, 1000000), Lit(1, 1000000))

\* |a - b| <= tol; false of a value outside the normal range
Within(a, b, tol) == FLe(FAbs(FSub(a, b)), tol)

\* |a - b| <= tol * |b|
RelWithin(a, b, tol) == FLe(FAbs(FSub(a, b)), FMul(tol, FAbs(b)))

NonNegative(v) == v.k = "fin" /\ Sgn(v) >= 0

\* the first statement has just bound xx
GridBuilt == pc = "pdfA" /\ out = <<>>

\* C1: After the normalization of a curve B whose sum is positive,
\* sum(curveB) * 0.1 is 1 within 1e-9, whatever the unnormalized values were.
C1_NormalizedIntegralIsOne ==
  (pc = "plotB" /\ FLt(FZero, divisor))
    => Within(FMul(np_sum(yy), Dx), One, Tol1e9)

C1_Witness ==
  /\ pc = "plotB"
  /\ FLt(FZero, divisor)
  /\ Len(yy) = MaxLen
  /\ yy[1] # yy[2]

\* C2, as stated: curve A is symmetric under index reversal, curveA[i] equal
\* to curveA[N-1-i] within 1e-9 for every index i of 0..N-1.
C2_IndexReversal ==
  pc = "plotA"
    => \A k \in 1..Len(arg) : Within(arg[k], arg[Len(arg) + 1 - k], Tol1e9)

\* C2, amended: curve A has 200 values and is symmetric about index 100,
\* curveA[i] equal to curveA[200-i] within 1e-9 for every index i of 1..199.
C2_MirrorAboutIndex100 ==
  pc = "plotA"
    => /\ Len(arg) = 200
       /\ \A k \in 2..200 : Within(arg[k], arg[202 - k], Tol1e9)

C2_Witness ==
  /\ pc = "plotA"
  /\ Len(arg) = 200
  /\ ~Within(arg[91], arg[110], Tol1e9)
  /\ Within(arg[91], arg[111], Tol1e9)

\* C3, as stated: the grid has exactly 200 points, the first is -10.0, each
\* consecutive pair differs by 0.1, the points are strictly increasing, and
\* the last point is 9.9.
C3_GridLiteral ==
  GridBuilt
    => /\ Len(xx) = 200
       /\ xx[1] = Start
       /\ \A k \in 1..199 : /\ FEq(FSub(xx[k + 1], xx[k]), Step)
                            /\ FLt(xx[k], xx[k + 1])
       /\ FEq(xx[200], Lit(99, 10))

\* C3, amended: the grid has exactly 200 points, the first is exactly -10.0,
\* the points are strictly increasing and below 10.0, and each consecutive
\* pair differs by 0.1, and the last point from 9.9, by at most 1e-12.
C3_GridWithinRounding ==
  GridBuilt
    => /\ Len(xx) = 200
       /\ xx[1] = Start
       /\ \A k \in 1..199 : /\ Within(FSub(xx[k + 1], xx[k]), Step, Tol1e12)
                            /\ FLt(xx[k], xx[k + 1])
       /\ Within(xx[200], Lit(99, 10), Tol1e12)
       /\ FLt(xx[200], Stop)

C3_Witness ==
  /\ GridBuilt
  /\ Len(xx) = 200
  /\ ~FEq(xx[200], Lit(99, 10))
  /\ ~FEq(FSub(xx[2], xx[1]), Step)

\* C4: curve A is largest at index 100, the grid point at 0.0 (within 1e-9):
\* every other value of curve A is smaller, and the largest is 0.3989 within
\* 1e-4.
C4_MaxAtZero ==
  pc = "plotA"
    => /\ Len(arg) = 200
       /\ \A k \in (1..200) \ {101} : FLt(arg[k], arg[101])
       /\ Within(xx[101], FZero, Tol1e9)
       /\ Within(arg[101], Lit(3989, 10000), Tol1e4)

C4_Witness ==
  /\ pc = "plotA"
  /\ Len(arg) = 200
  /\ FLt(arg[100], arg[101])
  /\ FLt(arg[102], arg[101])

\* the reference indices j of the ratios tried: every RatioStride-th
RatioStride == 40
RatioColumns == {j \in 1..200 : j % RatioStride = 1}

\* C5, as stated: for every pair of indices i, j with curveA[j] > 0,
\* curveB[i] / curveB[j] == sqrt(curveA[i]) / sqrt(curveA[j]).
C5_RatiosEqual ==
  pc = "show"
    => LET A == lines[1].y
           B == lines[2].y
       IN  \A j \in RatioColumns : \A i \in 1..200 :
             FLt(FZero, A[j])
               => FEq(FDiv(B[i], B[j]), FDiv(np_sqrt(A[i]), np_sqrt(A[j])))

\* C5, amended: the normalization divides every element of the unnormalized
\* curve B by one common positive factor, and for every pair of indices i, j
\* with curveA[j] > 0 the ratios curveB[i] / curveB[j] and
\* sqrt(curveA[i]) / sqrt(curveA[j]) differ by at most 1e-12 of the latter.
C5_RatiosWithinRounding ==
  pc = "show"
    => LET A == lines[1].y
           B == lines[2].y
           S == [i \in 1..200 |-> np_sqrt(A[i])]
       IN  /\ FLt(FZero, divisor)
           /\ \A i \in 1..200 : B[i] = FDiv(S[i], divisor)
           /\ \A j \in RatioColumns : \A i \in 1..200 :
                FLt(FZero, A[j])
                  => RelWithin(FDiv(B[i], B[j]), FDiv(S[i], S[j]), Tol1e12)

C5_Witness ==
  /\ pc = "show"
  /\ Len(lines) = 2
  /\ FLt(FZero, lines[1].y[1])
  /\ ~FEq(FDiv(lines[2].y[2], lines[2].y[1]),
          FDiv(np_sqrt(lines[1].y[2]), np_sqrt(lines[1].y[1])))

\* the values of an array being filled by norm.pdf, sqrt or the division
CurveOut == IF pc \in {"pdfA", "pdfB", "sqrt", "div"} THEN out ELSE <<>>

\* C6: in every state, before and after the normalization, every value of
\* curve A and of curve B computed so far is a number >= 0.
C6_NonNegative ==
  /\ \A k \in 1..Len(CurveOut) : NonNegative(CurveOut[k])
  /\ \A k \in 1..Len(arg) : NonNegative(arg[k])
  /\ \A k \in 1..Len(yy) : NonNegative(yy[k])
  /\ \A n \in 1..Len(lines) : \A k \in 1..Len(lines[n].y) :
       NonNegative(lines[n].y[k])

C6_Witness ==
  /\ pc = "div"
  /\ Len(lines) = 1
  /\ Len(yy) = 200
  /\ Len(out) = 100
  /\ FLt(FZero, out[100])

\* C7: sum(curveA) * 0.1 over the 200 points is 1.0 within 1e-3.
C7_IntegralOfA ==
  pc = "plotA"
    => /\ Len(arg) = 200
       /\ Within(FMul(np_sum(arg), Dx), One, Tol1e3)

C7_Witness ==
  /\ pc = "plotA"
  /\ Len(arg) = 200
  /\ FLt(FZero, np_sum(arg))

\* C8: the division is never by zero: while the normalization divides, its
\* divisor sum(unnormalized curve B) * 0.1 is strictly positive; no run ends
\* in an error, and no quotient is an infinity or a nan.
C8_NoDivisionByZero ==
  /\ pc # "error"
  /\ pc = "div" => /\ FLt(FZero, divisor)
                   /\ \A k \in 1..Len(out) : IsFin(out[k])
  /\ pc \in {"plotB", "show"} => \A k \in 1..Len(yy) : IsFin(yy[k])

C8_Witness ==
  /\ pc = "div"
  /\ FLt(FZero, divisor)
  /\ Len(out) = 1
  /\ out[1] = FDiv(yy[1], divisor)

\* C9: the largest value of the normalized curve B is strictly below the
\* largest value of curve A, and both are at the same grid point.
C9_PeakSoftened ==
  pc = "show"
    => /\ Len(lines) = 2
       /\ \E k \in 1..200 :
            /\ \A j \in 1..200 : FLe(lines[1].y[j], lines[1].y[k])
            /\ \A j \in 1..200 : FLe(lines[2].y[j], lines[2].y[k])
            /\ FLt(lines[2].y[k], lines[1].y[k])

C9_Witness ==
  /\ pc = "show"
  /\ Len(lines) = 2
  /\ FLt(lines[2].y[101], lines[1].y[101])
  /\ FLt(lines[1].y[100], lines[1].y[101])
  /\ FLt(lines[2].y[100], lines[2].y[101])

\* C10: any two runs of the cell give the same grid, curve A and normalized
\* curve B: every figure shown equals the first one, and the grid each run
\* builds anew is, element by element, the grid of the first run.
C10_Deterministic ==
  /\ \A r \in 1..Len(displayed) : displayed[r] = displayed[1]
  /\ (pc = "show" /\ displayed # <<>>) => lines = displayed[1]
  /\ (pc = "arange" /\ displayed # <<>>)
       => out = SubSeq(displayed[1][1].x, 1, Len(out))
  /\ (GridBuilt /\ displayed # <<>>) => xx = displayed[1][1].x

C10_Witness ==
  /\ pc = "idle"
  /\ Len(displayed) = MaxRuns
  /\ Len(displayed[MaxRuns]) = 2
  /\ displayed[MaxRuns][2].y = yy

\* the statements of the cell in their order, from one run to the next
StepOrder ==
  {<<"idle", "arange">>, <<"arange", "pdfA">>, <<"pdfA", "plotA">>,
   <<"plotA", "pdfB">>, <<"pdfB", "sqrt">>, <<"sqrt", "sum">>,
   <<"sum", "div">>, <<"div", "plotB">>, <<"plotB", "show">>,
   <<"show", "idle">>}

\* one step of a run: the next statement, or one more element of the array
\* the current statement fills, never more than 200 of them
OnePass ==
  IF pc' # pc THEN <<pc, pc'>> \in StepOrder
  ELSE Len(out') = Len(out) + 1 /\ Len(out') < 200

\* C11: every run of the cell terminates: a run that has started reaches the
\* end of the cell with both curves on its figure, by one pass of each
\* statement in order over the 200 elements, none repeated, none blocking.
C11_Terminates ==
  /\ [][OnePass]_vars
  /\ \A r \in 1..MaxRuns :
       (run = r /\ pc = "arange")
         ~> (pc = "idle" /\ Len(displayed) = r /\ Len(displayed[r]) = 2)

C11_Witness ==
  /\ pc = "idle"
  /\ run = 1
  /\ Len(displayed) = 1
  /\ Len(displayed[1]) = 2
  /\ Len(displayed[1][2].y) = 200

\* The square roots of a curve, and their quotients by sum * 0.1
RootsOf(A) == [i \in 1..Len(A) |-> np_sqrt(A[i])]
NormalizedOf(S) ==
  [i \in 1..Len(S) |-> FDiv(S[i], FMul(np_sum(S), Dx))]

\* what a step may do to the figure: a new run starts an empty one, the
\* second statement draws curve A on it, the last one the normalized curve B
Rendering ==
  /\ Len(lines') <= 2
  /\ pc' = "show" => Len(lines') = 2
  /\ lines' # lines =>
       \/ pc = "idle" /\ lines' = <<>>
       \/ /\ pc = "plotA"
          /\ lines = <<>>
          /\ Len(xx) = 200
          /\ lines' = <<[x |-> xx, y |-> [i \in 1..200 |-> norm_pdf(xx[i])]]>>
       \/ /\ pc = "plotB"
          /\ Len(lines) = 1
          /\ lines' = Append(lines, [x |-> xx,
                                     y |-> NormalizedOf(RootsOf(lines[1].y))])
          /\ lines'[2].y # RootsOf(lines[1].y)
          /\ lines'[1].y # RootsOf(lines[1].y)

\* C12: exactly two series are drawn on one figure, each against the full
\* grid of 200 points: curve A first, then curve B, and the curve B drawn is
\* the normalized one, never the unnormalized square roots.
C12_TwoSeriesInOrder == [][Rendering]_vars

C12_Witness ==
  /\ pc = "show"
  /\ Len(lines) = 2
  /\ lines[1].x = xx
  /\ lines[2].x = xx
  /\ lines[2].y = yy
  /\ lines[2].y[101] # np_sqrt(lines[1].y[101])

\* what a step leaves alone: only the first statement binds xx; the
\* normalization touches neither the grid nor the figure; and from curve A's
\* drawing to the drawing of curve B the grid and the drawn curve A stay
Frame ==
  /\ pc # "arange" => xx' = xx
  /\ pc \in {"sum", "div"} => UNCHANGED <<xx, arg, lines, displayed>>
  /\ pc \in {"pdfB", "sqrt", "sum", "div", "plotB"}
       => /\ xx' = xx
          /\ Len(lines) = 1
          /\ Len(lines') >= 1
          /\ lines'[1] = lines[1]
          /\ lines'[1].x = xx'

\* C13: once built, the grid is never modified by a later step, and the
\* normalization changes only curve B: computing, normalizing and drawing
\* curve B leave the grid and the drawn curve A unchanged.
C13_GridAndCurveAUnchanged == [][Frame]_vars

C13_Witness ==
  /\ pc = "plotB"
  /\ Len(lines) = 1
  /\ lines[1].x = xx
  /\ Len(yy) = 200
  /\ yy[101] = FDiv(np_sqrt(lines[1].y[101]), divisor)
  /\ yy[101] # np_sqrt(lines[1].y[101])

\* an array not bound yet, or one with a sample for each of the 200 points
PerPoint(a) == a = <<>> \/ (Len(a) = 200 /\ Len(xx') = 200)

\* the arrays a step leaves hold one sample per grid point, and the array a
\* statement completes holds at i the statement's function of grid point i
Sampling ==
  /\ PerPoint(arg')
  /\ PerPoint(yy')
  /\ \A n \in 1..Len(lines') : PerPoint(lines'[n].y) /\ PerPoint(lines'[n].x)
  /\ (pc \in {"pdfA", "pdfB"} /\ pc' # pc)
       => arg' = [i \in 1..200 |-> norm_pdf(xx[i])]
  /\ (pc = "sqrt" /\ pc' # pc)
       => yy' = [i \in 1..200 |-> np_sqrt(norm_pdf(xx[i]))]
  /\ (pc = "div" /\ pc' # pc)
       => yy' = [i \in 1..200 |-> FDiv(yy[i], divisor)]

\* C14: curve A, and curve B before and after its normalization, each hold
\* exactly one sample per grid point in grid order: 200 values, element i
\* being the value of the curve's function at grid point i.
C14_OneSamplePerPoint == [][Sampling]_vars

C14_Witness ==
  /\ pc = "sum"
  /\ Len(xx) = 200
  /\ Len(yy) = 200
  /\ Len(lines) = 1
  /\ Len(lines[1].y) = 200
  /\ yy[200] = np_sqrt(lines[1].y[200])

\* 0-based index i of the code is position i + 1 here, so that the mirror
\* 200 - i of i is position 202 - k of position k
MirrorOf(k) == 202 - k

\* the samples of a curve agree in mirrored pairs
Mirrored(c) ==
  /\ Len(c) = 200
  /\ \A k \in 2..200 : Within(c[k], c[MirrorOf(k)], Tol1e12)

\* the grid is antisymmetric about its point of index 100, which is 0 within
\* rounding, and no point of it is the mirror 10.0 of its first point -10.0
GridMirrored ==
  /\ Len(xx) = 200
  /\ Within(xx[101], FZero, Tol1e12)
  /\ \A k \in 2..200 : Within(xx[k], FNeg(xx[MirrorOf(k)]), Tol1e12)
  /\ xx[1] = FNeg(IntToF(10))
  /\ \A k \in 1..200 : ~Within(xx[k], FNeg(xx[1]), Tol1e3)

\* C15: the mirror of grid point i about x = 0 is grid point 200 - i:
\* curveA[i] and curveA[200-i], and curveB[i] and curveB[200-i], agree within
\* 1e-12 for every i in 1..199, and index 0 (x = -10.0) has no mirror point.
C15_MirrorIndex ==
  /\ (pc = "pdfB" /\ out = <<>>)
       => GridMirrored /\ Len(lines) = 1 /\ Mirrored(lines[1].y)
  /\ pc = "show"
       => Len(lines) = 2 /\ lines[2].x = xx /\ Mirrored(lines[2].y)

C15_Witness ==
  /\ pc = "show"
  /\ Len(lines) = 2
  /\ Len(lines[2].y) = 200
  /\ Within(lines[2].y[2], lines[2].y[200], Tol1e12)
  /\ ~Within(lines[2].y[1], lines[2].y[200], Tol1e12)
  /\ \E k \in 2..200 : lines[1].y[k] # lines[1].y[MirrorOf(k)]
  /\ \E k \in 2..200 : lines[2].y[k] # lines[2].y[MirrorOf(k)]

AllFinite(a) == \A i \in 1..Len(a) : IsFin(a[i])

\* the division that completes a later execution of the normalizing
\* statement divides by 1 and binds values equal to those it was given
Renormalized ==
  (pc = "div" /\ pc' = "plotB" /\ run >= 2 /\ AllFinite(yy))
    => /\ Within(divisor, One, Tol1e12)
       /\ Len(yy') = Len(yy)
       /\ \A i \in 1..Len(yy) : Within(yy'[i], yy[i], Tol1e12)

\* C16: the normalization is idempotent: yy = yy / (sum(yy) * 0.1) applied
\* again to a normalized curve B divides by 1 within 1e-12 and leaves every
\* value of the curve unchanged within 1e-12.
C16_NormalizeIdempotent == [][Renormalized]_vars

C16_Witness ==
  /\ pc = "plotB"
  /\ run = 2
  /\ Len(yy) = 200
  /\ AllFinite(yy)
  /\ Within(divisor, One, Tol1e12)
  /\ Within(yy[101], Lit(2821, 10000), Tol1e4)

====
